---- MODULE Spec2Model ----
(***************************************************************************)
(* Model of parse_results.py: a script that parses a benchmark log line by *)
(* line into a nested table results[build][size][container_type], groups   *)
(* the builds by (compiler, xsimd status) and prints three reports.        *)
(*                                                                         *)
(* Text is modelled character by character on TLA+ strings; Python's       *)
(* str.strip / startswith / replace / split, float() and re.match are      *)
(* operators that compute what the library calls compute.  Times are the   *)
(* values of unsigned decimal literals; a ratio a/b is kept as the exact   *)
(* fraction [num |-> a, den |-> b].                                        *)
(***************************************************************************)
EXTENDS Integers, Sequences, FiniteSets, TLC

VARIABLES
    f,              \* the input file: the sequence of its lines
    i,              \* index in f of the next line the for loop reads
    current_build,  \* build of the section being read (None before any)
    results,        \* results[build][size][container_type] = cpu_time
    results_keys,   \* the builds of results in dict insertion order
    compilers,      \* compilers[compiler][xsimd_status] = results[build]
    comparison,     \* lines printed by the comparison report
    bestworst,      \* rows printed by the best/worst report
    summary,        \* lines printed by the win summary
    pc,             \* position of the script
    name,           \* argument of the parse_build_name call under study
    ret             \* what that call returned

vars == <<f, i, current_build, results, results_keys, compilers,
          comparison, bestworst, summary, pc, name, ret>>

----------------------------------------------------------------------------
(* Bounds of the model *)

MaxLines == 4
MaxFrags == 3

----------------------------------------------------------------------------
(* Python values and str methods *)

None == "<None>"

\* truth value of `current_build` in `... and current_build`
Truthy(v) == v # None /\ v # ""

EmptyDict == [k \in {} |-> 0]

\* d with d[k] = v (dict item assignment)
Put(d, k, v) == [x \in (DOMAIN d) \cup {k} |-> IF x = k THEN v ELSE d[x]]

\* dict.get(k, default)
Get(d, k, default) == IF k \in DOMAIN d THEN d[k] ELSE default

StartsWith(s, p) == Len(s) >= Len(p) /\ SubSeq(s, 1, Len(p)) = p

RECURSIVE LStrip(_, _)
LStrip(s, chars) ==
    IF s # "" /\ Head(s) \in chars THEN LStrip(Tail(s), chars) ELSE s

RECURSIVE RStrip(_, _)
RStrip(s, chars) ==
    IF s # "" /\ SubSeq(s, Len(s), Len(s)) \in chars
    THEN RStrip(SubSeq(s, 1, Len(s) - 1), chars)
    ELSE s

\* str.strip(chars); line.strip() strips whitespace
Strip(s, chars) == RStrip(LStrip(s, chars), chars)

Whitespace == {" "}

\* str.replace(old, ''): every non-overlapping occurrence, left to right
RECURSIVE Remove(_, _)
Remove(s, old) ==
    IF Len(s) < Len(old) THEN s
    ELSE IF StartsWith(s, old) THEN Remove(SubSeq(s, Len(old) + 1, Len(s)), old)
    ELSE Head(s) \o Remove(Tail(s), old)

\* `old in s`
RECURSIVE Contains(_, _)
Contains(s, old) ==
    IF Len(s) < Len(old) THEN FALSE
    ELSE StartsWith(s, old) \/ Contains(Tail(s), old)

\* str.split(','): the list of fields
RECURSIVE SplitFrom(_, _, _)
SplitFrom(s, field, done) ==
    IF s = "" THEN Append(done, field)
    ELSE IF Head(s) = "," THEN SplitFrom(Tail(s), "", Append(done, field))
    ELSE SplitFrom(Tail(s), field \o Head(s), done)

Split(s) == SplitFrom(s, "", <<>>)

Digits == "0123456789"

IsDigit(c) == \E d \in 1..10 : SubSeq(Digits, d, d) = c

DigitValue(c) == (CHOOSE d \in 1..10 : SubSeq(Digits, d, d) = c) - 1

\* value of a string of decimal digits
RECURSIVE DecimalFrom(_, _)
DecimalFrom(s, acc) ==
    IF s = "" THEN acc ELSE DecimalFrom(Tail(s), 10 * acc + DigitValue(Head(s)))

\* int(s) on a string of decimal digits
ParseInt(s) == DecimalFrom(s, 0)

AllDigits(s) == s # "" /\ \A k \in 1..Len(s) : IsDigit(SubSeq(s, k, k))

\* float(s) on the literals the model's log carries: an unsigned run of
\* decimal digits is a number, a field with no digit in it (empty, or
\* letters) makes float() raise ValueError
FloatRaises(s) == ~AllDigits(s)

ParseFloat(s) == DecimalFrom(s, 0)

\* code points order the characters the model's text is made of
Ascii == " \",0123456789=_abcdefghijklmnopqrstuvwxyz"

Ord(c) == CHOOSE k \in 1..Len(Ascii) : SubSeq(Ascii, k, k) = c

\* Python's str <, which sorted() uses
RECURSIVE StrLess(_, _)
StrLess(a, b) ==
    IF b = "" THEN FALSE
    ELSE IF a = "" THEN TRUE
    ELSE IF Head(a) = Head(b) THEN StrLess(Tail(a), Tail(b))
    ELSE Ord(Head(a)) < Ord(Head(b))

\* str.upper() on the model's characters
Lower == "abcdefghijklmnopqrstuvwxyz"

Upper == "ABCDEFGHIJKLMNOPQRSTUVWXYZ"

UpperChar(c) ==
    IF \E k \in 1..26 : SubSeq(Lower, k, k) = c
    THEN LET k == CHOOSE k \in 1..26 : SubSeq(Lower, k, k) = c IN SubSeq(Upper, k, k)
    ELSE c

RECURSIVE ToUpper(_)
ToUpper(s) == IF s = "" THEN "" ELSE UpperChar(Head(s)) \o ToUpper(Tail(s))

\* sorted(S) for a set of strings
RECURSIVE Sorted(_)
Sorted(S) ==
    IF S = {} THEN <<>>
    ELSE LET least == CHOOSE x \in S : \A y \in S \ {x} : StrLess(x, y)
         IN  <<least>> \o Sorted(S \ {least})

----------------------------------------------------------------------------
(* The parse loop *)

IsHeader(line) == StartsWith(line, "=== build_")

\* line.replace('=== ', '').replace(' ===', '')
CleanHeader(line) == Remove(Remove(line, "=== "), " ===")

\* variant: only the first header of the file sets the build
HeaderBuild_FirstOnly(current, line) ==
    IF Truthy(current) THEN current ELSE CleanHeader(line)

\* current_build after a header line
HeaderBuild(current, line) == CleanHeader(line)

IsDataRow(line, current) == StartsWith(line, "\"") /\ Truthy(current)

\* the longest run of digits s starts with (\d+ is greedy)
RECURSIVE DigitRun(_)
DigitRun(s) ==
    IF s # "" /\ IsDigit(Head(s)) THEN Head(s) \o DigitRun(Tail(s)) ELSE ""

NoMatch == [matched |-> FALSE, group1 |-> "", group2 |-> ""]

\* re.match(r'(xtensor|fixed)_double_(\d+)', name): anchored at the start
\* of name only, so text may follow the digits
MatchAlt(s, alt) ==
    LET prefix == alt \o "_double_"
        digits == DigitRun(SubSeq(s, Len(prefix) + 1, Len(s)))
    IN  IF StartsWith(s, prefix) /\ digits # ""
        THEN [matched |-> TRUE, group1 |-> alt, group2 |-> digits]
        ELSE NoMatch

\* variant: the pattern (\w+)_double_(\d+), any leading word
RECURSIVE WordRun(_)
WordRun(s) ==
    IF s # "" /\ (\E k \in 1..26 : SubSeq(Lower, k, k) = Head(s))
    THEN Head(s) \o WordRun(Tail(s))
    ELSE ""

re_match_AnyWord(s) == IF WordRun(s) = "" THEN NoMatch ELSE MatchAlt(s, WordRun(s))

re_match(s) ==
    IF MatchAlt(s, "xtensor").matched THEN MatchAlt(s, "xtensor")
    ELSE MatchAlt(s, "fixed")

\* variant: setdefault, an entry already present is kept
StoreResult_KeepFirst(res, build, size, container_type, cpu_time) ==
    LET data == Get(res, build, EmptyDict)
        row  == Get(data, size, EmptyDict)
    IN  IF container_type \in DOMAIN row THEN res
        ELSE Put(res, build, Put(data, size, Put(row, container_type, cpu_time)))

\* results[build][size][container_type] = cpu_time on the nested defaultdict
StoreResult(res, build, size, container_type, cpu_time) ==
    LET data == Get(res, build, EmptyDict)
        row  == Get(data, size, EmptyDict)
    IN  Put(res, build, Put(data, size, Put(row, container_type, cpu_time)))

\* variant: the name is matched first and float() runs only on a match
ParseRow_MatchFirst(line, build, res) ==
    LET parts == Split(line)
        nm    == Strip(parts[1], {"\""})
        match == re_match(nm)
    IN  IF ~match.matched THEN [raised |-> "", results |-> res]
        ELSE IF Len(parts) < 4 THEN [raised |-> "IndexError", results |-> res]
        ELSE IF FloatRaises(parts[4]) THEN [raised |-> "ValueError", results |-> res]
        ELSE [raised |-> "",
              results |-> StoreResult(res, build, ParseInt(match.group2),
                                      match.group1, ParseFloat(parts[4]))]

\* the body of the elif branch: what a data row does to results, or the
\* exception it raises
ParseRow(line, build, res) ==
    LET parts == Split(line)
        nm    == Strip(parts[1], {"\""})
        match == re_match(nm)
    IN  IF Len(parts) < 4 THEN [raised |-> "IndexError", results |-> res]
        ELSE IF FloatRaises(parts[4]) THEN [raised |-> "ValueError", results |-> res]
        ELSE IF match.matched
        THEN [raised |-> "",
              results |-> StoreResult(res, build, ParseInt(match.group2),
                                      match.group1, ParseFloat(parts[4]))]
        ELSE [raised |-> "", results |-> res]

\* insertion order of the builds of results
KeysAfter(keys, res) ==
    LET new == (DOMAIN res) \ {keys[k] : k \in 1..Len(keys)}
    IN  IF new = {} THEN keys ELSE Append(keys, CHOOSE b \in new : TRUE)

\* the line the loop reads next, stripped
Line == Strip(f[i], Whitespace)

Failed == pc \in {"IndexError", "ValueError"}

Header ==
    /\ pc = "parse" /\ i <= Len(f)
    /\ IsHeader(Line)
    /\ current_build' = HeaderBuild(current_build, Line)
    /\ i' = i + 1
    /\ UNCHANGED <<f, results, results_keys, compilers, comparison, bestworst,
                   summary, pc, name, ret>>

DataRow ==
    /\ pc = "parse" /\ i <= Len(f)
    /\ ~IsHeader(Line) /\ IsDataRow(Line, current_build)
    /\ LET r == ParseRow(Line, current_build, results)
       IN  IF r.raised # ""
           THEN /\ pc' = r.raised
                /\ UNCHANGED <<i, results, results_keys>>
           ELSE /\ results' = r.results
                /\ results_keys' = KeysAfter(results_keys, r.results)
                /\ i' = i + 1
                /\ pc' = pc
    /\ UNCHANGED <<f, current_build, compilers, comparison, bestworst, summary,
                   name, ret>>

OtherLine ==
    /\ pc = "parse" /\ i <= Len(f)
    /\ ~IsHeader(Line) /\ ~IsDataRow(Line, current_build)
    /\ i' = i + 1
    /\ UNCHANGED <<f, current_build, results, results_keys, compilers,
                   comparison, bestworst, summary, pc, name, ret>>

EndOfFile ==
    /\ pc = "parse" /\ i > Len(f)
    /\ pc' = "group"
    /\ UNCHANGED <<f, i, current_build, results, results_keys, compilers,
                   comparison, bestworst, summary, name, ret>>

----------------------------------------------------------------------------
(* Grouping by compiler *)

\* variant: the else branch keeps the '_noxsimd' suffix
parse_build_name_KeepSuffix(b) ==
    LET nm == Remove(b, "build_")
    IN  IF Contains(nm, "_xsimd")
        THEN <<Remove(nm, "_xsimd"), "xsimd">>
        ELSE <<nm, "noxsimd">>

\* parse_build_name(name): <<compiler, xsimd>>
parse_build_name(b) ==
    LET nm == Remove(b, "build_")
    IN  IF Contains(nm, "_xsimd")
        THEN <<Remove(nm, "_xsimd"), "xsimd">>
        ELSE <<Remove(nm, "_noxsimd"), "noxsimd">>

sizes == <<1, 2, 3, 4, 5, 6, 7, 8, 9, 10, 16, 32, 64, 128, 256, 512, 1024>>

\* the loop over sorted(results.keys()) that fills compilers
RECURSIVE GroupFrom(_, _, _)
GroupFrom(builds, res, comp) ==
    IF builds = <<>> THEN comp
    ELSE LET build  == Head(builds)
             parsed == parse_build_name(build)
             inner  == Get(comp, parsed[1], EmptyDict)
         IN  GroupFrom(Tail(builds), res,
                       Put(comp, parsed[1], Put(inner, parsed[2], res[build])))

Group ==
    /\ pc = "group"
    /\ compilers' = GroupFrom(Sorted(DOMAIN results), results, EmptyDict)
    /\ pc' = "comparison"
    /\ UNCHANGED <<f, i, current_build, results, results_keys, comparison,
                   bestworst, summary, name, ret>>

----------------------------------------------------------------------------
(* The comparison report *)

Ratio(a, b) == [num |-> a, den |-> b]

GreaterThanOne(r) == r.num > r.den

Reciprocal(r) == [num |-> r.den, den |-> r.num]

\* variant: the threshold is 2
Winner_Above2(ratio) == IF ratio.num > 2 * ratio.den THEN "fixed" ELSE "xtensor"

Winner(ratio) == IF GreaterThanOne(ratio) THEN "fixed" ELSE "xtensor"

\* the row printed for one size, before its numbers are formatted
ComparisonRow(compiler, xsimd_status, size, xtensor_time, fixed_time) ==
    LET ratio == Ratio(xtensor_time, fixed_time)
    IN  [kind |-> "row", compiler |-> compiler, xsimd_status |-> xsimd_status,
         size |-> size, xtensor_time |-> xtensor_time, fixed_time |-> fixed_time,
         ratio |-> ratio, winner |-> Winner(ratio),
         factor |-> IF GreaterThanOne(ratio) THEN ratio ELSE Reciprocal(ratio)]

\* `for size in sizes:` of one section, from the k-th size on
RECURSIVE ComparisonRows(_, _, _, _)
ComparisonRows(compiler, xsimd_status, data, k) ==
    IF k > Len(sizes) THEN <<>>
    ELSE LET size == sizes[k]
             xtensor_time == IF size \in DOMAIN data THEN Get(data[size], "xtensor", 0) ELSE 0
             fixed_time   == IF size \in DOMAIN data THEN Get(data[size], "fixed", 0) ELSE 0
             rest == ComparisonRows(compiler, xsimd_status, data, k + 1)
         IN  IF size \in DOMAIN data /\ xtensor_time > 0 /\ fixed_time > 0
             THEN <<ComparisonRow(compiler, xsimd_status, size, xtensor_time, fixed_time)>> \o rest
             ELSE rest

xsimd_order == <<"xsimd", "noxsimd">>

\* `for xsimd_status in ['xsimd', 'noxsimd']:` of one compiler
RECURSIVE ComparisonSections(_, _, _)
ComparisonSections(comp, compiler, k) ==
    IF k > Len(xsimd_order) THEN <<>>
    ELSE LET xsimd_status == xsimd_order[k]
             rest == ComparisonSections(comp, compiler, k + 1)
         IN  IF xsimd_status \notin DOMAIN comp[compiler] THEN rest
             ELSE <<[kind |-> "section", compiler |-> compiler,
                     xsimd_status |-> xsimd_status,
                     text |-> "--- " \o ToUpper(xsimd_status) \o " ---"]>>
                  \o ComparisonRows(compiler, xsimd_status,
                                    comp[compiler][xsimd_status], 1)
                  \o rest

\* `for compiler in sorted(compilers.keys()):`
RECURSIVE ComparisonLines(_, _)
ComparisonLines(comp, names) ==
    IF names = <<>> THEN <<>>
    ELSE <<[kind |-> "compiler", compiler |-> Head(names),
            text |-> "COMPILER: " \o ToUpper(Head(names))]>>
         \o ComparisonSections(comp, Head(names), 1)
         \o ComparisonLines(comp, Tail(names))

ComparisonReport ==
    /\ pc = "comparison"
    /\ comparison' = ComparisonLines(compilers, Sorted(DOMAIN compilers))
    /\ pc' = "bestworst"
    /\ UNCHANGED <<f, i, current_build, results, results_keys, compilers,
                   bestworst, summary, name, ret>>

----------------------------------------------------------------------------
(* The best/worst report *)

\* float('inf'), below which every time of the model lies
Inf == -1

LessThan(a, b) == IF b = Inf THEN a # Inf ELSE a # Inf /\ a < b

container_types == <<"xtensor", "fixed">>

\* one pass of the body of `for container_type in ['xtensor', 'fixed']:`
ScanEntry(acc, build, data, size, container_type) ==
    IF size \in DOMAIN data /\ container_type \in DOMAIN data[size]
    THEN LET time   == data[size][container_type]
             parsed == parse_build_name(build)
             config == parsed[1] \o "_" \o parsed[2] \o "_" \o container_type
             best   == IF LessThan(time, acc.best_time)
                       THEN [acc EXCEPT !.best_time = time, !.best_config = config]
                       ELSE acc
         IN  IF time > best.worst_time
             THEN [best EXCEPT !.worst_time = time, !.worst_config = config]
             ELSE best
    ELSE acc

\* `for build in results:` in insertion order, from the k-th build on
RECURSIVE ScanBuilds(_, _, _, _, _)
ScanBuilds(acc, res, keys, size, k) ==
    IF k > Len(keys) THEN acc
    ELSE LET build == keys[k]
             one == ScanEntry(acc, build, res[build], size, container_types[1])
             two == ScanEntry(one, build, res[build], size, container_types[2])
         IN  ScanBuilds(two, res, keys, size, k + 1)

\* `for size in sizes:` from the k-th size on
RECURSIVE BestWorstRows(_, _, _)
BestWorstRows(res, keys, k) ==
    IF k > Len(sizes) THEN <<>>
    ELSE LET start == [best_time |-> Inf, best_config |-> "",
                       worst_time |-> 0, worst_config |-> ""]
             acc  == ScanBuilds(start, res, keys, sizes[k], 1)
             rest == BestWorstRows(res, keys, k + 1)
         IN  IF acc.best_config # ""
             THEN <<[size |-> sizes[k], best_config |-> acc.best_config,
                     best_time |-> acc.best_time,
                     worst_config |-> acc.worst_config,
                     worst_time |-> acc.worst_time]>> \o rest
             ELSE rest

BestWorstReport ==
    /\ pc = "bestworst"
    /\ bestworst' = BestWorstRows(results, results_keys, 1)
    /\ pc' = "summary"
    /\ UNCHANGED <<f, i, current_build, results, results_keys, compilers,
                   comparison, summary, name, ret>>

----------------------------------------------------------------------------
(* The win summary *)

\* a/b + c/d
AddRatio(r, q) == [num |-> r.num * q.den + q.num * r.den, den |-> r.den * q.den]

\* the counting loop over sizes of one (compiler, xsimd status)
RECURSIVE CountWins(_, _, _)
CountWins(acc, data, k) ==
    IF k > Len(sizes) THEN acc
    ELSE LET size == sizes[k]
             xtensor_time == IF size \in DOMAIN data THEN Get(data[size], "xtensor", 0) ELSE 0
             fixed_time   == IF size \in DOMAIN data THEN Get(data[size], "fixed", 0) ELSE 0
         IN  IF size \in DOMAIN data /\ xtensor_time > 0 /\ fixed_time > 0
             THEN IF fixed_time < xtensor_time
                  THEN CountWins([acc EXCEPT !.fixed_wins = @ + 1,
                                             !.total_fixed_speedup =
                                                 AddRatio(@, Ratio(xtensor_time, fixed_time))],
                                 data, k + 1)
                  ELSE CountWins([acc EXCEPT !.xtensor_wins = @ + 1], data, k + 1)
             ELSE CountWins(acc, data, k + 1)

SummaryLine(compiler, xsimd_status, data) ==
    LET c == CountWins([fixed_wins |-> 0, xtensor_wins |-> 0,
                        total_fixed_speedup |-> Ratio(0, 1)], data, 1)
    IN  [kind |-> "wins", compiler |-> compiler, xsimd_status |-> xsimd_status,
         fixed_wins |-> c.fixed_wins, xtensor_wins |-> c.xtensor_wins,
         total |-> c.fixed_wins + c.xtensor_wins,
         avg_speedup |-> IF c.fixed_wins > 0
                         THEN Ratio(c.total_fixed_speedup.num,
                                    c.total_fixed_speedup.den * c.fixed_wins)
                         ELSE Ratio(0, 1)]

RECURSIVE SummarySections(_, _, _)
SummarySections(comp, compiler, k) ==
    IF k > Len(xsimd_order) THEN <<>>
    ELSE LET xsimd_status == xsimd_order[k]
             rest == SummarySections(comp, compiler, k + 1)
         IN  IF xsimd_status \notin DOMAIN comp[compiler] THEN rest
             ELSE <<SummaryLine(compiler, xsimd_status, comp[compiler][xsimd_status])>>
                  \o rest

RECURSIVE SummaryLines(_, _)
SummaryLines(comp, names) ==
    IF names = <<>> THEN <<>>
    ELSE <<[kind |-> "compiler", compiler |-> Head(names),
            text |-> ToUpper(Head(names)) \o ":"]>>
         \o SummarySections(comp, Head(names), 1)
         \o SummaryLines(comp, Tail(names))

WinSummary ==
    /\ pc = "summary"
    /\ summary' = SummaryLines(compilers, Sorted(DOMAIN compilers))
    /\ pc' = "done"
    /\ UNCHANGED <<f, i, current_build, results, results_keys, compilers,
                   comparison, bestworst, name, ret>>

----------------------------------------------------------------------------
(* The input files of the model *)

LogLines ==
    { "=== build_gcc === ",
      "=== build_gcc_noxsimd ===",
      "=== build_gcc_xsimd ===",
      "\"xtensor_double_4\",1,1,5",
      "\"xtensor_double_4\",1,1,0",
      "\"fixed_double_4\",1,1,5",
      "\"fixed_double_4\",1,1,3",
      "\"fixed_double_11\",1,1,5",
      "\"other_double_4\",1,1,5",
      "\"other_double_4\",1,1,x",
      "\"fixed_double_4\",1" }

Files == UNION {[1..n -> LogLines] : n \in 0..MaxLines}

Init ==
    /\ f \in Files
    /\ i = 1
    /\ current_build = None
    /\ results = EmptyDict
    /\ results_keys = <<>>
    /\ compilers = EmptyDict
    /\ comparison = <<>>
    /\ bestworst = <<>>
    /\ summary = <<>>
    /\ pc = "parse"
    /\ name = None
    /\ ret = None

Next ==
    \/ Header
    \/ DataRow
    \/ OtherLine
    \/ EndOfFile
    \/ Group
    \/ ComparisonReport
    \/ BestWorstReport
    \/ WinSummary

Spec == Init /\ [][Next]_vars

----------------------------------------------------------------------------
(* parse_build_name on its own, over build identifiers put together from
   the pieces the naming convention is made of *)

Fragments == {"build_", "gcc", "_xsimd", "_noxsimd", "a", "build"}

RECURSIVE Concat(_)
Concat(q) == IF q = <<>> THEN "" ELSE Head(q) \o Concat(Tail(q))

\* every identifier starts with 'build_', as every cleaned header does
BuildIds ==
    {"build_" \o Concat(q) : q \in UNION {[1..n -> Fragments] : n \in 1..MaxFrags}}

InitName ==
    /\ name \in BuildIds
    /\ ret = None
    /\ pc = "call"
    /\ f = <<>>
    /\ i = 1
    /\ current_build = None
    /\ results = EmptyDict
    /\ results_keys = <<>>
    /\ compilers = EmptyDict
    /\ comparison = <<>>
    /\ bestworst = <<>>
    /\ summary = <<>>

CallParseBuildName ==
    /\ pc = "call"
    /\ ret' = parse_build_name(name)
    /\ pc' = "returned"
    /\ UNCHANGED <<f, i, current_build, results, results_keys, compilers,
                   comparison, bestworst, summary, name>>

NextName == CallParseBuildName

SpecName == InitName /\ [][NextName]_vars

----------------------------------------------------------------------------
(* What the input file says, read off the file itself *)

Variants == {"xtensor", "fixed"}

\* nm matches (xtensor|fixed)_double_<digits>
NameIsBenchmark(nm) ==
    \E v \in Variants :
        /\ StartsWith(nm, v \o "_double_")
        /\ Len(nm) > Len(v) + 8
        /\ IsDigit(SubSeq(nm, Len(v) + 9, Len(v) + 9))

\* what one line of the log says: whether it is a header and of which
\* build, whether it is a data row, and the row's name, size and time
LineFacts(raw) ==
    LET line    == Strip(raw, Whitespace)
        parts   == Split(line)
        nm      == Strip(parts[1], {"\""})
        variant == IF NameIsBenchmark(nm)
                   THEN CHOOSE v \in Variants : StartsWith(nm, v \o "_double_")
                   ELSE ""
        numeric == Len(parts) >= 4 /\ ~FloatRaises(parts[4])
    IN  [header    |-> IsHeader(line),
         build     |-> CleanHeader(line),
         quoted    |-> StartsWith(line, "\""),
         benchmark |-> NameIsBenchmark(nm),
         variant   |-> variant,
         size      |-> IF NameIsBenchmark(nm)
                       THEN ParseInt(DigitRun(SubSeq(nm, Len(variant) + 9, Len(nm))))
                       ELSE 0,
         malformed |-> ~numeric,
         time      |-> IF numeric THEN ParseFloat(parts[4]) ELSE 0]

Facts == [raw \in LogLines |-> LineFacts(raw)]

Fact(k) == Facts[f[k]]

HeadersBefore(k) == {j \in 1..(k - 1) : j <= Len(f) /\ Fact(j).header}

LastHeader(k) == CHOOSE j \in HeadersBefore(k) : \A h \in HeadersBefore(k) : h <= j

\* the build identifier of the most recent header line before line k
BuildAt(k) == Fact(LastHeader(k)).build

\* line k is a data row inside a build section
RowInSection(k) ==
    /\ k \in 1..Len(f)
    /\ Fact(k).quoted
    /\ HeadersBefore(k) # {}

\* the fourth field of row k is missing or not a number
Malformed(k) == Fact(k).malformed

RowTime(k) == Fact(k).time

\* the rows of the file that carry a measurement
BenchmarkRows == {k \in 1..Len(f) : RowInSection(k) /\ Fact(k).benchmark}

KeyOf(k) == <<BuildAt(k), Fact(k).size, Fact(k).variant>>

\* the (build, size, container_type) keys of a table
Entries(res) ==
    UNION {UNION {{<<b, s, c>> : c \in DOMAIN res[b][s]} : s \in DOMAIN res[b]}
           : b \in DOMAIN res}

Parsed == pc \in {"group", "comparison", "bestworst", "summary", "done"}

SizeSet == {sizes[k] : k \in 1..Len(sizes)}

BothRecorded(data, s) == s \in DOMAIN data /\ Variants \subseteq DOMAIN data[s]

ComparisonRowsOf == {comparison[k] : k \in {j \in 1..Len(comparison) : comparison[j].kind = "row"}}

----------------------------------------------------------------------------
(* C1 *)

\* the table holds one entry per key of the benchmark rows, and under the
\* key of each row the time of the row that Chosen picks for it
TableHolds(Chosen(_, _)) ==
    LET rows == BenchmarkRows
        key  == [k \in rows |-> KeyOf(k)]
        time == [k \in rows |-> RowTime(k)]
        same == [k \in rows |-> {j \in rows : key[j] = key[k]}]
    IN  /\ Entries(results) = {key[k] : k \in rows}
        /\ \A k \in rows : results[key[k][1]][key[k][2]][key[k][3]] = time[Chosen(k, same[k])]

Latest(S) == CHOOSE j \in S : \A h \in S : h <= j

\* C1 as stated: once the file has been parsed without error, the table
\* holds, for every benchmark row of the file, exactly one entry under the
\* row's (build, size, container_type) key and that entry is the row's own
\* fourth field, repeated keys included.
C1_EveryRowKeepsItsOwnTime == Parsed => TableHolds(LAMBDA k, S : k)

\* C1 amended: once the file has been parsed without error, the table holds
\* exactly one entry per key carried by a benchmark row, and under each key
\* the fourth field of the LAST row of the file that carries that key.
C1_LastRowOfAKeyWins == Parsed => TableHolds(LAMBDA k, S : Latest(S))

\* a parsed file in which two rows carry the same key and different times
C1_Witness ==
    /\ Parsed
    /\ \E k, j \in BenchmarkRows : k < j /\ KeyOf(k) = KeyOf(j) /\ RowTime(k) # RowTime(j)

----------------------------------------------------------------------------
(* C2 *)

\* the loop is about to read a data row of a build section whose name does
\* not match the pattern
AtUnmatchedRow ==
    /\ pc = "parse"
    /\ RowInSection(i)
    /\ ~Fact(i).benchmark

Dropped == pc' = "parse" /\ i' = i + 1 /\ results' = results /\ results_keys' = results_keys

\* C2 as stated: a data row of a build section whose name does not match
\* the pattern is skipped without error and leaves the table unchanged,
\* whatever its other fields hold.
C2_UnmatchedRowAlwaysDropped == [][AtUnmatchedRow => Dropped]_vars

\* C2 amended: a data row of a build section whose name does not match the
\* pattern and whose fourth field is present and numeric is skipped without
\* error and leaves the table unchanged.
C2_UnmatchedNumericRowDropped == [][AtUnmatchedRow /\ ~Malformed(i) => Dropped]_vars

\* an unmatched row with a numeric fourth field has just been read
C2_Witness ==
    /\ pc = "parse" /\ i > 1
    /\ RowInSection(i - 1)
    /\ ~Fact(i - 1).benchmark
    /\ ~Malformed(i - 1)

----------------------------------------------------------------------------
(* C3 *)

\* the table changes at no build other than b
ChangesOnlyAt(b) ==
    /\ DOMAIN results \subseteq DOMAIN results'
    /\ \A x \in DOMAIN results' : x # b => x \in DOMAIN results /\ results'[x] = results[x]

\* C3: a step that changes the table is the reading of a line that has a
\* header before it and changes the table only under the build identifier
\* of the most recent such header; a header line changes the current build
\* and not the table; a line with no header before it that is no header
\* itself changes nothing and raises nothing.
C3_EntriesUnderLatestHeader ==
    [][ /\ results' # results =>
             /\ pc = "parse" /\ i <= Len(f)
             /\ HeadersBefore(i) # {}
             /\ ChangesOnlyAt(BuildAt(i))
             /\ BuildAt(i) \in DOMAIN results'
        /\ (pc = "parse" /\ i <= Len(f) /\ Fact(i).header) =>
             results' = results /\ results_keys' = results_keys /\ pc' = "parse"
        /\ (pc = "parse" /\ i <= Len(f) /\ ~Fact(i).header /\ HeadersBefore(i) = {}) =>
             results' = results /\ current_build' = current_build /\ pc' = "parse"
      ]_vars

\* a row has just been stored under the second of two different builds
C3_Witness ==
    /\ pc = "parse" /\ i > 1
    /\ (i - 1) \in BenchmarkRows
    /\ \E h \in HeadersBefore(i - 1) : Fact(h).build # BuildAt(i - 1)
    /\ BuildAt(i - 1) \in DOMAIN results

----------------------------------------------------------------------------
(* C4 *)

Recombined(r) == "build_" \o r[1] \o "_" \o r[2]

\* C4 as stated: for every build identifier, 'build_' + compiler_id + '_' +
\* mode is the identifier parse_build_name was given.
C4_AlwaysReversible == pc = "returned" => Recombined(ret) = name

\* the number of places of s where sub occurs
RECURSIVE Occurrences(_, _)
Occurrences(s, sub) ==
    IF Len(s) < Len(sub) THEN 0
    ELSE (IF StartsWith(s, sub) THEN 1 ELSE 0) + Occurrences(Tail(s), sub)

EndsWith(s, p) == Len(s) >= Len(p) /\ SubSeq(s, Len(s) - Len(p) + 1, Len(s)) = p

\* b is 'build_' + c + '_xsimd' or 'build_' + c + '_noxsimd', with 'build_'
\* nowhere but in front and no '_xsimd' or '_noxsimd' but the last
FollowsConvention(b) ==
    /\ StartsWith(b, "build_")
    /\ Occurrences(b, "build_") = 1
    /\ EndsWith(b, "_xsimd") \/ EndsWith(b, "_noxsimd")
    /\ Occurrences(b, "_xsimd") + Occurrences(b, "_noxsimd") = 1

\* C4 amended: for every build identifier that is 'build_' + c + '_xsimd'
\* or 'build_' + c + '_noxsimd', in which 'build_' occurs only as the
\* leading prefix and '_xsimd' / '_noxsimd' only as the final suffix,
\* 'build_' + compiler_id + '_' + mode is the identifier.
C4_ReversibleUnderConvention ==
    pc = "returned" /\ FollowsConvention(name) => Recombined(ret) = name

\* parse_build_name has returned for a conventional '_noxsimd' identifier
C4_Witness ==
    /\ pc = "returned"
    /\ FollowsConvention(name)
    /\ ret[2] = "noxsimd"
    /\ ret[1] # ""

----------------------------------------------------------------------------
(* C5 *)

\* the row the report prints for the same place with the two times swapped
Swapped(r) == ComparisonRow(r.compiler, r.xsimd_status, r.size, r.fixed_time, r.xtensor_time)

IsReciprocal(p, q) == p.num * q.num = p.den * q.den

Mirrored(r) ==
    /\ IsReciprocal(Swapped(r).ratio, r.ratio)
    /\ Swapped(r).winner # r.winner

\* C5 as stated: for every printed row, swapping the two times gives the
\* reciprocal ratio and the other winner, equal times included.
C5_SwapAlwaysMirrors == \A r \in ComparisonRowsOf : Mirrored(r)

\* C5 amended: for every printed row whose two times differ, swapping the
\* two times gives the reciprocal ratio and the other winner.
C5_SwapMirrorsUnlessEqual ==
    \A r \in ComparisonRowsOf : r.xtensor_time # r.fixed_time => Mirrored(r)

\* a row with different times has been printed
C5_Witness == \E r \in ComparisonRowsOf : r.xtensor_time # r.fixed_time

----------------------------------------------------------------------------
(* C6 *)

\* C6: in the win summary, fixed_wins + xtensor_wins of every (compiler,
\* mode) line is the number of sizes of the enumeration at which both an
\* xtensor and a fixed time are recorded for that build, times of 0
\* included.
C6_WinsSumToSizesWithBoth ==
    pc = "done" =>
        \A k \in 1..Len(summary) :
            summary[k].kind = "wins" =>
                summary[k].fixed_wins + summary[k].xtensor_wins
                    = Cardinality({s \in SizeSet :
                          BothRecorded(compilers[summary[k].compiler][summary[k].xsimd_status], s)})

----------------------------------------------------------------------------
(* C7 *)

Fatal ==
    /\ pc' \in {"IndexError", "ValueError"}
    /\ i' = i
    /\ results' = results
    /\ comparison' = <<>> /\ bestworst' = <<>> /\ summary' = <<>>

\* C7: reading a data row of a build section whose fourth field is missing
\* or not a number ends the run with an exception: the position in the
\* file stays on that row, no report line has been or is printed, and no
\* step follows the exception.
C7_MalformedRowIsFatal ==
    [][ /\ ~Failed
        /\ (pc = "parse" /\ RowInSection(i) /\ Malformed(i)) => Fatal
      ]_vars

\* the run has failed on a malformed row with lines still unread after it
C7_Witness ==
    /\ Failed
    /\ RowInSection(i) /\ Malformed(i)
    /\ i < Len(f)
    /\ comparison = <<>> /\ bestworst = <<>> /\ summary = <<>>

----------------------------------------------------------------------------
(* C8 *)

RowPrinted(b, s) ==
    \E r \in ComparisonRowsOf :
        /\ <<r.compiler, r.xsimd_status>> = parse_build_name(b)
        /\ r.size = s

SizesOf(res) == UNION {DOMAIN res[b] : b \in DOMAIN res}

\* C8: the comparison report prints a row for a (build, size) exactly when
\* the size is in the enumeration and both container types have a recorded
\* time there, and the rows of one section are in ascending size order.
C8_RowIffBothRecorded ==
    pc \in {"bestworst", "summary", "done"} =>
        /\ \A b \in DOMAIN results : \A s \in SizeSet \cup SizesOf(results) :
               RowPrinted(b, s) <=> (s \in SizeSet /\ BothRecorded(results[b], s))
        /\ \A j, k \in 1..Len(comparison) :
               /\ j < k
               /\ comparison[j].kind = "row" /\ comparison[k].kind = "row"
               /\ comparison[j].compiler = comparison[k].compiler
               /\ comparison[j].xsimd_status = comparison[k].xsimd_status
               => comparison[j].size < comparison[k].size

----------------------------------------------------------------------------
(* C9 *)

\* the (position of build, position of container type) pairs with a time
\* recorded at size s, in the order the report scans them
Recorded(s) ==
    {p \in (1..Len(results_keys)) \X (1..Len(container_types)) :
        /\ s \in DOMAIN results[results_keys[p[1]]]
        /\ container_types[p[2]] \in DOMAIN results[results_keys[p[1]]][s]}

TimeAt(s, p) == results[results_keys[p[1]]][s][container_types[p[2]]]

Earlier(p, q) == p[1] < q[1] \/ (p[1] = q[1] /\ p[2] <= q[2])

LabelAt(p) ==
    LET parsed == parse_build_name(results_keys[p[1]])
    IN  parsed[1] \o "_" \o parsed[2] \o "_" \o container_types[p[2]]

\* the first recorded pair at size s whose time is extreme under Beats
FirstExtreme(s, Beats(_, _)) ==
    CHOOSE p \in Recorded(s) :
        /\ \A q \in Recorded(s) : ~Beats(TimeAt(s, q), TimeAt(s, p))
        /\ \A q \in Recorded(s) :
               (\A r \in Recorded(s) : ~Beats(TimeAt(s, r), TimeAt(s, q))) => Earlier(p, q)

BestWorstRowsAt(s) == {k \in 1..Len(bestworst) : bestworst[k].size = s}

\* C9: the best/worst report prints exactly one row for every size of the
\* enumeration that has a recorded time and none for the others; the row
\* carries the minimum and the maximum of the times recorded at that size,
\* each with the label of the first pair in scan order that attains it.
C9_BestWorstPerSize ==
    pc \in {"summary", "done"} =>
        \A s \in SizeSet :
            IF Recorded(s) = {} THEN BestWorstRowsAt(s) = {}
            ELSE /\ Cardinality(BestWorstRowsAt(s)) = 1
                 /\ \A k \in BestWorstRowsAt(s) :
                        LET lo == FirstExtreme(s, LAMBDA a, b : a < b)
                            hi == FirstExtreme(s, LAMBDA a, b : a > b)
                        IN  /\ bestworst[k].best_time = TimeAt(s, lo)
                            /\ bestworst[k].best_config = LabelAt(lo)
                            /\ bestworst[k].worst_time = TimeAt(s, hi)
                            /\ bestworst[k].worst_config = LabelAt(hi)

----------------------------------------------------------------------------
(* C10 *)

\* C10: after grouping, different builds of the table sit in different
\* (compiler, mode) slots of compilers, and the slot of every build holds
\* that build's data.
C10_NoBuildLost ==
    pc \in {"comparison", "bestworst", "summary", "done"} =>
        /\ \A a, b \in DOMAIN results : a # b => parse_build_name(a) # parse_build_name(b)
        /\ \A b \in DOMAIN results :
               LET slot == parse_build_name(b)
               IN  /\ slot[1] \in DOMAIN compilers
                   /\ slot[2] \in DOMAIN compilers[slot[1]]
                   /\ compilers[slot[1]][slot[2]] = results[b]

====
